---- MODULE Spec2Model ----
(***************************************************************************)
(* Model of the caching layer of src/src/rag/app.py: the CacheManager      *)
(* (key derivation, memory / redis backends, TTL expiry) and the three     *)
(* cache-fronted operations embed, retrieve and api_report.                *)
(***************************************************************************)
EXTENDS Integers, Sequences, FiniteSets, TLC

VARIABLES
    CACHE_ENABLED,  \* app.py:35  global enable flag, resolved at process start
    CACHE_TYPE,     \* app.py:36  backend requested by the configuration
    connect,        \* app.py:80-88  what connecting to redis did at construction
    cache_type,     \* app.py:75  CacheManager.cache_type, the backend in use
    memory_cache,   \* app.py:76  CacheManager.memory_cache: key -> <<value, timestamp, ttl>>
    redis_db,       \* the redis server's keyspace: key -> [data, expire_at]
    heap,           \* Python objects reachable by reference (AskResponse instances)
    now,            \* datetime.now(), in seconds
    ticks,          \* number of clock advances so far
    frame,          \* the handler in progress: its position and locals
    response,       \* the HTTP response of the handler that has just ended
    log,            \* CacheManager.get / set calls made by the handler in progress
    calls,          \* expensive external calls made by the handler in progress
    last,           \* the last CacheManager call made directly, with what it returned
    latest,         \* key -> what the most recent set of the key stored, and when
    threads,        \* concurrent callers of get / set: position and locals of each
    derived         \* key derivation applied to two argument tuples

vars == <<CACHE_ENABLED, CACHE_TYPE, connect, cache_type, memory_cache, redis_db,
          heap, now, ticks, frame, response, log, calls, last, latest, threads, derived>>

(***************************************************************************)
(* Bounds of the model.                                                    *)
(***************************************************************************)
MaxTicks == 2
NDocs == 2

(***************************************************************************)
(* Program constants.                                                      *)
(***************************************************************************)
TOP_K == 6
TTL_DEFAULT == 3600
TTL_EMBED == 86400
TTL_RETRIEVAL == 21600
TTL_RESPONSE == 3600

\* Model names are strings of characters; a Python str is a sequence of characters.
OPENAI_MODEL == <<"g", "p", "t">>
OPENAI_EMBED_MODEL == <<"t", "e", "3">>

(***************************************************************************)
(* Python values.  Every value is a record so that values of different     *)
(* types can be compared.                                                  *)
(***************************************************************************)
None == [py |-> "None"]
PyStr(s) == [isInt |-> FALSE, n |-> 0, s |-> s]
PyInt(n) == [isInt |-> TRUE, n |-> n, s |-> <<>>]

Digit(d) == CASE d = 0 -> "0" [] d = 1 -> "1" [] d = 2 -> "2" [] d = 3 -> "3"
              [] d = 4 -> "4" [] d = 5 -> "5" [] d = 6 -> "6" [] d = 7 -> "7"
              [] d = 8 -> "8" [] d = 9 -> "9"

RECURSIVE Decimal(_)
Decimal(n) == IF n < 10 THEN <<Digit(n)>> ELSE Decimal(n \div 10) \o <<Digit(n % 10)>>

\* str(arg) of app.py:92, for the primitive parts the call sites pass.
str(arg) == IF arg.isInt
            THEN (IF arg.n < 0 THEN <<"-">> \o Decimal(-arg.n) ELSE Decimal(arg.n))
            ELSE arg.s

\* ":".join(parts) of app.py:92
RECURSIVE join(_)
join(parts) == IF parts = <<>> THEN <<>>
               ELSE IF Len(parts) = 1 THEN parts[1]
               ELSE parts[1] \o <<":">> \o join(Tail(parts))

\* hashlib.sha256(...).hexdigest(): a collision-free digest, represented by
\* the byte sequence it was computed from.
sha256_hexdigest(bytes) == [sha256 |-> bytes]

\* CacheManager._hash_key, app.py:90-93
_hash_key(args) ==
    LET combined == join([i \in 1..Len(args) |-> str(args[i])])
    IN  sha256_hexdigest(combined)

\* f"{tag}:{digest}", app.py:142, 146 and 150: the characters of the tag, a
\* colon, and the hex digest, which is kept as one symbol.
fstring(tag, digest) == tag \o <<":">> \o <<digest>>

\* a retrieval key written under the embedding tag
get_retrieval_key_embed(query, k) ==
    fstring(<<"e", "m", "b", "e", "d">>, _hash_key(<<PyStr(query), PyInt(k)>>))

\* CacheManager.get_embedding_key, app.py:140-142
get_embedding_key(text) ==
    fstring(<<"e", "m", "b", "e", "d">>, _hash_key(<<PyStr(text), PyStr(OPENAI_EMBED_MODEL)>>))

\* CacheManager.get_retrieval_key, app.py:144-146
get_retrieval_key(query, k) ==
    fstring(<<"r", "e", "t", "r", "i", "e", "v", "a", "l">>, _hash_key(<<PyStr(query), PyInt(k)>>))

\* CacheManager.get_response_key, app.py:148-150
get_response_key(question, top_k) ==
    fstring(<<"r", "e", "s", "p", "o", "n", "s", "e">>,
            _hash_key(<<PyStr(question), PyInt(top_k), PyStr(OPENAI_MODEL)>>))

(***************************************************************************)
(* Objects and serialisation.  An AskResponse is a mutable object: the     *)
(* program holds it by reference [ref |-> id] into heap.  Embeddings and   *)
(* retrieval results are never mutated and are held as plain values.       *)
(***************************************************************************)
IsRef(v) == DOMAIN v = {"ref"}

\* the reference a fresh object gets: the lowest address not in use
NewRef(hp) == CHOOSE i \in 1..(Cardinality(DOMAIN hp) + 1) :
                  /\ i \notin DOMAIN hp
                  /\ \A j \in 1..(i - 1) : j \in DOMAIN hp

\* pickle.dumps(value), app.py:123: a byte string, here the sequence of the
\* pickle machine's instructions, holding a copy of the value's content at
\* the time of the call: an object is written as its class and state, a list
\* as an empty list and one append per item in order, any other value as
\* one instruction.
Stop == [op |-> "STOP"]

pickle_dumps(value, hp) ==
    [pickle |->
        IF IsRef(value)
        THEN <<[op |-> "NEWOBJ", state |-> hp[value.ref]], Stop>>
        ELSE IF DOMAIN value = {"list"}
        THEN <<[op |-> "EMPTY_LIST"]>>
             \o [i \in 1..Len(value.list) |-> [op |-> "APPEND", item |-> value.list[i]]]
             \o <<Stop>>
        ELSE <<[op |-> "PUSH", value |-> value], Stop>>]

\* what the instructions build: [instance |-> state] for an object, the list
\* of the appended items in order, or the value pushed
pickle_content(data) ==
    LET code == data.pickle
    IN  IF code[1].op = "NEWOBJ" THEN [instance |-> code[1].state]
        ELSE IF code[1].op = "EMPTY_LIST"
        THEN [list |-> [i \in 1..(Len(code) - 2) |-> code[i + 1].item]]
        ELSE code[1].value

\* pickle.loads(data), app.py:103: a new value built from the bytes; for an
\* object, a new instance.  Yields the value and the heap holding it.
pickle_loads(data, hp) ==
    LET content == pickle_content(data)
    IN  IF DOMAIN content = {"instance"}
        THEN LET r == NewRef(hp)
             IN  [value |-> [ref |-> r], hp |-> (r :> content.instance) @@ hp]
        ELSE [value |-> content, hp |-> hp]

\* objects no longer referenced by the cache are reclaimed
Collect(hp, mem) ==
    LET live == {mem[k][1].ref : k \in {x \in DOMAIN mem : IsRef(mem[x][1])}}
    IN  [r \in (DOMAIN hp) \cap live |-> hp[r]]

(***************************************************************************)
(* The redis server, as the client sees it.                                *)
(***************************************************************************)
Faults == {"ok", "ConnectionError", "UnpicklingError"}
NoExc == "ok"

\* GET key: the stored bytes, or nil once the key's expiry has passed
redis_get(key) ==
    IF key \in DOMAIN redis_db /\ now < redis_db[key].expire_at
    THEN redis_db[key].data ELSE None

\* SETEX key ttl data
redis_setex(key, ttl, data) ==
    (key :> [data |-> data, expire_at |-> now + ttl]) @@ redis_db

\* a mapping with no keys
Empty == [k \in {} |-> None]

\* FLUSHDB
redis_flushdb == Empty

\* the server drops keys whose expiry has passed
redis_expire(db, t) == [k \in {x \in DOMAIN db : t < db[x].expire_at} |-> db[k]]

(***************************************************************************)
(* CacheManager                                                            *)
(***************************************************************************)
\* CacheManager.__init__, app.py:74-88.  outcome is what importing redis and
\* redis.from_url do: "ok", "ImportError" or another exception.
InitOutcomes == {"ok", "ImportError", "Exception"}

\* a constructor that falls back only when the client library is missing
init_import_only(requested, outcome) ==
    IF requested = "redis"
    THEN (IF outcome = "ImportError" THEN "memory" ELSE "redis")
    ELSE requested

CacheManager_init(requested, outcome) ==
    IF requested = "redis"
    THEN (IF outcome = "ok" THEN "redis" ELSE "memory")
    ELSE requested

\* del self.memory_cache[key]
Del(mem, key) == [k \in (DOMAIN mem) \ {key} |-> mem[k]]

\* a lookup that still serves an entry whose age equals its ttl
get_memory_inclusive(key) ==
    IF key \in DOMAIN memory_cache
    THEN LET value == memory_cache[key][1]
             timestamp == memory_cache[key][2]
             ttl == memory_cache[key][3]
         IN  IF now - timestamp <= ttl
             THEN [ret |-> value, exc |-> NoExc, mem |-> memory_cache, hp |-> heap]
             ELSE [ret |-> None, exc |-> NoExc, mem |-> Del(memory_cache, key), hp |-> heap]
    ELSE [ret |-> None, exc |-> NoExc, mem |-> memory_cache, hp |-> heap]

\* the memory branch of CacheManager.get, app.py:105-111
get_memory(key) ==
    IF key \in DOMAIN memory_cache
    THEN LET value == memory_cache[key][1]
             timestamp == memory_cache[key][2]
             ttl == memory_cache[key][3]
         IN  IF now - timestamp < ttl
             THEN [ret |-> value, exc |-> NoExc, mem |-> memory_cache, hp |-> heap]
             ELSE [ret |-> None, exc |-> NoExc, mem |-> Del(memory_cache, key), hp |-> heap]
    ELSE [ret |-> None, exc |-> NoExc, mem |-> memory_cache, hp |-> heap]

\* "if data", app.py:103: nil and the empty byte string are false
truthy(data) == IF data = None THEN FALSE ELSE Len(data.pickle) > 0

\* the redis branch of CacheManager.get, app.py:102-103
get_redis(key, fault) ==
    IF fault = "ConnectionError"
    THEN [ret |-> None, exc |-> fault, mem |-> memory_cache, hp |-> heap]
    ELSE LET data == redis_get(key)
         IN  IF ~truthy(data)
             THEN [ret |-> None, exc |-> NoExc, mem |-> memory_cache, hp |-> heap]
             ELSE IF fault = "UnpicklingError"
             THEN [ret |-> None, exc |-> fault, mem |-> memory_cache, hp |-> heap]
             ELSE LET l == pickle_loads(data, heap)
                  IN  [ret |-> l.value, exc |-> NoExc, mem |-> memory_cache, hp |-> l.hp]

\* the body of the try block of CacheManager.get, app.py:101-111
get_try(key, fault) ==
    IF cache_type = "redis" THEN get_redis(key, fault) ELSE get_memory(key)

\* a get whose except clause lets the exception out
get_raising(key, fault) ==
    IF ~CACHE_ENABLED
    THEN [ret |-> None, exc |-> NoExc, caught |-> NoExc,
          mem |-> memory_cache, hp |-> heap, io |-> FALSE]
    ELSE LET r == get_try(key, fault)
         IN  [ret |-> r.ret, exc |-> r.exc, caught |-> r.exc,
              mem |-> r.mem, hp |-> r.hp, io |-> TRUE]

\* CacheManager.get, app.py:95-114.  io tells whether the backend was used.
CacheManager_get(key, fault) ==
    IF ~CACHE_ENABLED
    THEN [ret |-> None, exc |-> NoExc, caught |-> NoExc,
          mem |-> memory_cache, hp |-> heap, io |-> FALSE]
    ELSE LET r == get_try(key, fault)
         IN  IF r.exc # NoExc
             THEN [ret |-> None, exc |-> NoExc, caught |-> r.exc,
                   mem |-> r.mem, hp |-> r.hp, io |-> TRUE]
             ELSE [ret |-> r.ret, exc |-> NoExc, caught |-> NoExc,
                   mem |-> r.mem, hp |-> r.hp, io |-> TRUE]

\* the body of the try block of CacheManager.set, app.py:122-125
set_try(key, value, ttl, fault, hp) ==
    IF cache_type = "redis"
    THEN IF fault # NoExc \/ ttl <= 0
         THEN [exc |-> IF fault # NoExc THEN fault ELSE "ResponseError",
               mem |-> memory_cache, rdb |-> redis_db]
         ELSE [exc |-> NoExc, mem |-> memory_cache,
               rdb |-> redis_setex(key, ttl, pickle_dumps(value, hp))]
    ELSE [exc |-> NoExc, mem |-> (key :> <<value, now, ttl>>) @@ memory_cache,
          rdb |-> redis_db]

\* a set that does not look at CACHE_ENABLED
set_always(key, value, ttl, fault, hp) ==
    LET r == set_try(key, value, ttl, fault, hp)
    IN  IF r.exc # NoExc
        THEN [exc |-> NoExc, caught |-> r.exc,
              mem |-> memory_cache, rdb |-> redis_db, io |-> TRUE]
        ELSE [exc |-> NoExc, caught |-> NoExc,
              mem |-> r.mem, rdb |-> r.rdb, io |-> TRUE]

\* a set whose except clause lets the exception out
set_raising(key, value, ttl, fault, hp) ==
    IF ~CACHE_ENABLED
    THEN [exc |-> NoExc, caught |-> NoExc,
          mem |-> memory_cache, rdb |-> redis_db, io |-> FALSE]
    ELSE LET r == set_try(key, value, ttl, fault, hp)
         IN  IF r.exc # NoExc
             THEN [exc |-> r.exc, caught |-> r.exc,
                   mem |-> memory_cache, rdb |-> redis_db, io |-> TRUE]
             ELSE [exc |-> NoExc, caught |-> NoExc,
                   mem |-> r.mem, rdb |-> r.rdb, io |-> TRUE]

\* CacheManager.set, app.py:116-127.  hp is the heap at the time of the call.
CacheManager_set(key, value, ttl, fault, hp) ==
    IF ~CACHE_ENABLED
    THEN [exc |-> NoExc, caught |-> NoExc,
          mem |-> memory_cache, rdb |-> redis_db, io |-> FALSE]
    ELSE LET r == set_try(key, value, ttl, fault, hp)
         IN  IF r.exc # NoExc
             THEN [exc |-> NoExc, caught |-> r.exc,
                   mem |-> memory_cache, rdb |-> redis_db, io |-> TRUE]
             ELSE [exc |-> NoExc, caught |-> NoExc,
                   mem |-> r.mem, rdb |-> r.rdb, io |-> TRUE]

\* CacheManager.clear, app.py:129-138
CacheManager_clear(fault) ==
    LET r == IF cache_type = "redis"
             THEN (IF fault # NoExc
                   THEN [exc |-> fault, mem |-> memory_cache, rdb |-> redis_db]
                   ELSE [exc |-> NoExc, mem |-> memory_cache, rdb |-> redis_flushdb])
             ELSE [exc |-> NoExc, mem |-> Empty, rdb |-> redis_db]
    IN  IF r.exc # NoExc
        THEN [exc |-> NoExc, caught |-> r.exc, mem |-> memory_cache, rdb |-> redis_db]
        ELSE [exc |-> NoExc, caught |-> NoExc, mem |-> r.mem, rdb |-> r.rdb]

(***************************************************************************)
(* Collaborators: the embedding provider, the vector store and the         *)
(* generation provider.                                                    *)
(***************************************************************************)
\* client.embeddings.create(...).data[0].embedding, app.py:220-224
embedding_of(text) == [embedding |-> text]

\* the collection's documents in relevance order, with their metadata
doc(i) == <<[text |-> i], [source |-> "doc1.md", chunk |-> i - 1]>>

\* col.query(query_embeddings=[q_emb], n_results=k) and list(zip(docs, metas)),
\* app.py:291-294, for a collection holding size documents
query_result(size, k) ==
    [list |-> [i \in 1..(IF size < k THEN size ELSE k) |-> doc(i)]]

\* the JSON objects the generation provider may answer with
SqlAnswer == [sql |-> "SELECT 1", tables_used |-> <<"sales">>]
AssumptionsAnswer == [assumptions |-> <<"none">>]

\* The text of an answer, as a sequence of pieces: a JSON object {...}, a
\* JSON array [...], or words that are not JSON.
Obj(d) == [object |-> d]
Arr == [array |-> <<>>]
Junk == [junk |-> "Here is the answer:"]

\* response.choices[0].message.content, app.py:326: the texts the provider
\* may answer with
LLMTexts ==
    { <<Obj(SqlAnswer)>>,
      <<Junk, Obj(AssumptionsAnswer)>>,
      <<Junk>>,
      <<Obj(AssumptionsAnswer), Junk>>,
      <<Obj(SqlAnswer), Junk, Obj(AssumptionsAnswer)>>,
      <<Arr>> }

\* json.loads(text), app.py:331 and 337: the text must be one JSON value
json_loads(text) ==
    IF Len(text) = 1 /\ DOMAIN text[1] # {"junk"}
    THEN [exc |-> NoExc, value |-> text[1]]
    ELSE [exc |-> "JSONDecodeError", value |-> None]

\* re.search(r"\{[\s\S]*\}\s*$", text), app.py:334: from the first opening
\* brace to a closing brace that ends the text; <<>> when there is no match
re_search(text) ==
    LET opens == {i \in 1..Len(text) : DOMAIN text[i] = {"object"}}
    IN  IF opens # {} /\ DOMAIN text[Len(text)] = {"object"}
        THEN SubSeq(text, CHOOSE i \in opens : \A j \in opens : i <= j, Len(text))
        ELSE <<>>

\* a parser that answers with an empty object when the text holds no JSON
parse_json_lenient(text) ==
    LET whole == json_loads(text)
    IN  IF whole.exc = NoExc THEN whole
        ELSE LET m == re_search(text)
             IN  IF m = <<>> THEN [exc |-> NoExc, value |-> Obj([sql |-> ""])]
                 ELSE json_loads(m)

\* parse_json, app.py:329-337
parse_json(text) ==
    LET whole == json_loads(text)
    IN  IF whole.exc = NoExc THEN whole
        ELSE LET m == re_search(text)
             IN  IF m = <<>> THEN [exc |-> "ValueError", value |-> None]
                 ELSE json_loads(m)

\* dict.get(key, default)
dict_get(d, key, default) == IF key \in DOMAIN d THEN d[key] ELSE default

\* an answer that reports the number of chunks asked for by default
AskResponse_asked(data, contexts) ==
    [tables_used |-> dict_get(data, "tables_used", <<>>),
     columns_used |-> dict_get(data, "columns_used", <<>>),
     joins_explained |-> dict_get(data, "joins_explained", <<>>),
     assumptions |-> dict_get(data, "assumptions", <<>>),
     sql |-> dict_get(data, "sql", ""),
     retrieved_chunks |-> TOP_K,
     model_used |-> OPENAI_MODEL,
     cached |-> FALSE]

\* an answer that is born marked as served from the cache
AskResponse_flagged(data, contexts) ==
    [tables_used |-> dict_get(data, "tables_used", <<>>),
     columns_used |-> dict_get(data, "columns_used", <<>>),
     joins_explained |-> dict_get(data, "joins_explained", <<>>),
     assumptions |-> dict_get(data, "assumptions", <<>>),
     sql |-> dict_get(data, "sql", ""),
     retrieved_chunks |-> Len(contexts.list),
     model_used |-> OPENAI_MODEL,
     cached |-> TRUE]

\* AskResponse(...), app.py:406-415
AskResponse(data, contexts) ==
    [tables_used |-> dict_get(data, "tables_used", <<>>),
     columns_used |-> dict_get(data, "columns_used", <<>>),
     joins_explained |-> dict_get(data, "joins_explained", <<>>),
     assumptions |-> dict_get(data, "assumptions", <<>>),
     sql |-> dict_get(data, "sql", ""),
     retrieved_chunks |-> Len(contexts.list),
     model_used |-> OPENAI_MODEL,
     cached |-> FALSE]

(***************************************************************************)
(* The state of the handlers.                                              *)
(***************************************************************************)
Questions == {<<"a", ":", "1">>}
TopKs == {None, PyInt(0), PyInt(TOP_K)}

Idle == [pc |-> "idle", handler |-> "none", question |-> <<>>, k |-> 0, use_cache |-> TRUE,
         contexts |-> None, q_emb |-> None, raw |-> <<>>]

NoResponse == [status |-> 0, body |-> None]

\* the faults a redis call can meet; the memory backend has none
PossibleFaults == IF CACHE_ENABLED /\ cache_type = "redis" THEN Faults ELSE {NoExc}
SetFaults == PossibleFaults \ {"UnpicklingError"}

\* raise HTTPException(status_code=500, detail=str(e)), app.py:423-424
HTTP500(e) == [status |-> 500, body |-> [detail |-> e]]
HTTP200(body) == [status |-> 200, body |-> body]

\* a caller that takes every falsy value for a miss
is_hit_truthy(cached) == cached # None /\ cached # [list |-> <<>>]

\* "cached is not None", app.py:216, 285 and 395
is_hit(cached) == cached # None

LogGet(key, g) == [op |-> "get", key |-> key, io |-> g.io, caught |-> g.caught,
                   hit |-> is_hit(g.ret)]
LogSet(key, ttl, r) == [op |-> "set", key |-> key, io |-> r.io, caught |-> r.caught, ttl |-> ttl]

NoCall == [op |-> "none"]

Threads == {"t1", "t2"}
Returned == [pc |-> "returned"]
NoKeys == [fn |-> "none"]

\* the handler ends: its response is on its way to the client
Done(f) == [f EXCEPT !.pc = "done"]

\* what the redis server may hold when the process starts: nothing, or an
\* embedding an earlier process stored
StoredEarlier(q) ==
    get_embedding_key(q) :> [data |-> pickle_dumps(embedding_of(q), Empty),
                             expire_at |-> TTL_EMBED]

RedisAtStart == {Empty} \cup {StoredEarlier(q) : q \in Questions}

Init ==
    /\ CACHE_ENABLED \in BOOLEAN
    /\ CACHE_TYPE \in {"memory", "redis"}
    /\ connect \in IF CACHE_TYPE = "redis" THEN InitOutcomes ELSE {"none"}
    /\ cache_type = CacheManager_init(CACHE_TYPE, connect)
    /\ memory_cache = Empty
    /\ redis_db \in IF CACHE_TYPE = "redis" THEN RedisAtStart ELSE {Empty}
    /\ heap = Empty
    /\ now = 0
    /\ ticks = 0
    /\ frame = Idle
    /\ response = NoResponse
    /\ log = <<>>
    /\ calls = <<>>
    /\ last = NoCall
    /\ latest = Empty
    /\ threads = [t \in Threads |-> Returned]
    /\ derived = NoKeys

config == <<CACHE_ENABLED, CACHE_TYPE, connect, cache_type>>
handlers == <<frame, response, log, calls>>
direct == <<last, latest>>
rest == <<threads, derived>>

(***************************************************************************)
(* POST /report, app.py:385-424, in the steps of its call tree.            *)
(***************************************************************************)
\* api_report up to the answer-cache lookup, app.py:388-397
api_report_begin(question, top_k, use_cache, fault) ==
    /\ frame.pc = "idle"
    /\ LET k == IF top_k # None /\ top_k.n # 0 /\ top_k.n > 0 THEN top_k.n ELSE TOP_K
           cache_key == get_response_key(question, k)
           g == CacheManager_get(cache_key, fault)
           f == [Idle EXCEPT !.handler = "api_report", !.question = question, !.k = k,
                             !.use_cache = use_cache]
       IN  /\ calls' = <<>>
           /\ IF use_cache
              THEN /\ log' = <<LogGet(cache_key, g)>>
                   /\ IF g.exc # NoExc
                      THEN /\ response' = HTTP500(g.exc)
                           /\ frame' = Done(f)
                           /\ memory_cache' = g.mem
                           /\ heap' = Collect(g.hp, g.mem)
                      ELSE IF is_hit(g.ret)
                      THEN LET cached_response == g.ret
                               hp2 == [g.hp EXCEPT ![cached_response.ref].cached = TRUE]
                           IN  /\ response' = HTTP200(hp2[cached_response.ref])
                               /\ frame' = Done(f)
                               /\ memory_cache' = g.mem
                               /\ heap' = Collect(hp2, g.mem)
                      ELSE /\ response' = NoResponse
                           /\ frame' = [f EXCEPT !.pc = "retrieve"]
                           /\ memory_cache' = g.mem
                           /\ heap' = Collect(g.hp, g.mem)
              ELSE /\ log' = <<>>
                   /\ response' = NoResponse
                   /\ frame' = [f EXCEPT !.pc = "retrieve"]
                   /\ UNCHANGED <<memory_cache, heap>>
    /\ UNCHANGED <<config, direct, rest, redis_db, now, ticks>>

\* a retrieve that goes on to the vector store after a hit
retrieve_begin_no_return(fault, collection) ==
    /\ frame.pc = "retrieve"
    /\ LET cache_key == get_retrieval_key(frame.question, frame.k)
           g == CacheManager_get(cache_key, fault)
       IN  IF frame.use_cache
           THEN /\ log' = Append(log, LogGet(cache_key, g))
                /\ memory_cache' = g.mem
                /\ heap' = Collect(g.hp, g.mem)
                /\ IF collection # NoExc
                   THEN /\ response' = HTTP500(collection)
                        /\ frame' = Done(frame)
                   ELSE /\ frame' = [frame EXCEPT !.pc = "embed"]
                        /\ UNCHANGED response
           ELSE /\ IF collection # NoExc
                   THEN /\ response' = HTTP500(collection)
                        /\ frame' = Done(frame)
                   ELSE /\ frame' = [frame EXCEPT !.pc = "embed"]
                        /\ UNCHANGED response
                /\ UNCHANGED <<log, memory_cache, heap>>
    /\ UNCHANGED <<config, direct, rest, redis_db, now, ticks, calls>>

\* retrieve up to the retrieval-cache lookup and, on a miss, ensure_collection,
\* app.py:278-289.  collection is what ensure_collection does.
retrieve_begin(fault, collection) ==
    /\ frame.pc = "retrieve"
    /\ LET cache_key == get_retrieval_key(frame.question, frame.k)
           g == CacheManager_get(cache_key, fault)
       IN  IF frame.use_cache
           THEN /\ log' = Append(log, LogGet(cache_key, g))
                /\ memory_cache' = g.mem
                /\ heap' = Collect(g.hp, g.mem)
                /\ IF g.exc # NoExc
                   THEN /\ response' = HTTP500(g.exc)
                        /\ frame' = Done(frame)
                   ELSE IF is_hit(g.ret)
                   THEN /\ frame' = [frame EXCEPT !.pc = "generate", !.contexts = g.ret]
                        /\ UNCHANGED response
                   ELSE IF collection # NoExc
                   THEN /\ response' = HTTP500(collection)
                        /\ frame' = Done(frame)
                   ELSE /\ frame' = [frame EXCEPT !.pc = "embed"]
                        /\ UNCHANGED response
           ELSE /\ IF collection # NoExc
                   THEN /\ response' = HTTP500(collection)
                        /\ frame' = Done(frame)
                   ELSE /\ frame' = [frame EXCEPT !.pc = "embed"]
                        /\ UNCHANGED response
                /\ UNCHANGED <<log, memory_cache, heap>>
    /\ UNCHANGED <<config, direct, rest, redis_db, now, ticks, calls>>

\* embed up to the embedding-cache lookup, app.py:210-217
embed_begin(fault) ==
    /\ frame.pc = "embed"
    /\ LET cache_key == get_embedding_key(frame.question)
           g == CacheManager_get(cache_key, fault)
       IN  /\ log' = Append(log, LogGet(cache_key, g))
           /\ memory_cache' = g.mem
           /\ heap' = Collect(g.hp, g.mem)
           /\ IF g.exc # NoExc
              THEN /\ response' = HTTP500(g.exc)
                   /\ frame' = Done(frame)
              ELSE IF is_hit(g.ret)
              THEN /\ frame' = [frame EXCEPT !.pc = "query", !.q_emb = g.ret]
                   /\ UNCHANGED response
              ELSE /\ frame' = [frame EXCEPT !.pc = "embed_create"]
                   /\ UNCHANGED response
    /\ UNCHANGED <<config, direct, rest, redis_db, now, ticks, calls>>

\* embed from the provider call to its return, app.py:219-229
embed_create(outcome, fault) ==
    /\ frame.pc = "embed_create"
    /\ calls' = Append(calls, "embeddings.create")
    /\ IF outcome # NoExc
       THEN /\ response' = HTTP500(outcome)
            /\ frame' = Done(frame)
            /\ UNCHANGED <<log, memory_cache, redis_db, heap>>
       ELSE LET cache_key == get_embedding_key(frame.question)
                embedding == embedding_of(frame.question)
                r == CacheManager_set(cache_key, embedding, TTL_EMBED, fault, heap)
            IN  /\ log' = Append(log, LogSet(cache_key, TTL_EMBED, r))
                /\ memory_cache' = r.mem
                /\ redis_db' = r.rdb
                /\ heap' = Collect(heap, r.mem)
                /\ IF r.exc # NoExc
                   THEN /\ response' = HTTP500(r.exc)
                        /\ frame' = Done(frame)
                   ELSE /\ frame' = [frame EXCEPT !.pc = "query", !.q_emb = embedding]
                        /\ UNCHANGED response
    /\ UNCHANGED <<config, direct, rest, now, ticks>>

\* retrieve from the vector-store query to its return, app.py:291-300
retrieve_query(outcome, size, fault) ==
    /\ frame.pc = "query"
    /\ calls' = Append(calls, "col.query")
    /\ IF outcome # NoExc
       THEN /\ response' = HTTP500(outcome)
            /\ frame' = Done(frame)
            /\ UNCHANGED <<log, memory_cache, redis_db, heap>>
       ELSE LET cache_key == get_retrieval_key(frame.question, frame.k)
                result == query_result(size, frame.k)
                r == CacheManager_set(cache_key, result, TTL_RETRIEVAL, fault, heap)
            IN  IF frame.use_cache
                THEN /\ log' = Append(log, LogSet(cache_key, TTL_RETRIEVAL, r))
                     /\ memory_cache' = r.mem
                     /\ redis_db' = r.rdb
                     /\ heap' = Collect(heap, r.mem)
                     /\ IF r.exc # NoExc
                        THEN /\ response' = HTTP500(r.exc)
                             /\ frame' = Done(frame)
                        ELSE /\ frame' = [frame EXCEPT !.pc = "generate", !.contexts = result]
                             /\ UNCHANGED response
                ELSE /\ frame' = [frame EXCEPT !.pc = "generate", !.contexts = result]
                     /\ UNCHANGED <<log, memory_cache, redis_db, heap, response>>
    /\ UNCHANGED <<config, direct, rest, now, ticks>>

\* api_report from the generation call to its return, app.py:401-424.
\* outcome is what the provider call does and raw the text it answers with.
api_report_finish(outcome, raw, fault) ==
    /\ frame.pc = "generate"
    /\ calls' = Append(calls, "chat.completions.create")
    /\ frame' = [Done(frame) EXCEPT !.raw = IF outcome = NoExc THEN raw ELSE <<>>]
    /\ IF outcome # NoExc
       THEN /\ response' = HTTP500(outcome)
            /\ UNCHANGED <<log, memory_cache, redis_db, heap>>
       ELSE IF parse_json(raw).exc # NoExc
       THEN /\ response' = HTTP500(parse_json(raw).exc)
            /\ UNCHANGED <<log, memory_cache, redis_db, heap>>
       ELSE IF DOMAIN parse_json(raw).value # {"object"}
       THEN /\ response' = HTTP500("AttributeError")
            /\ UNCHANGED <<log, memory_cache, redis_db, heap>>
       ELSE LET data == parse_json(raw).value.object
                cache_key == get_response_key(frame.question, frame.k)
                ref == NewRef(heap)
                hp2 == (ref :> AskResponse(data, frame.contexts)) @@ heap
                r == CacheManager_set(cache_key, [ref |-> ref], TTL_RESPONSE, fault, hp2)
            IN  IF frame.use_cache
                THEN /\ log' = Append(log, LogSet(cache_key, TTL_RESPONSE, r))
                     /\ memory_cache' = r.mem
                     /\ redis_db' = r.rdb
                     /\ heap' = Collect(hp2, r.mem)
                     /\ response' = IF r.exc # NoExc THEN HTTP500(r.exc)
                                    ELSE HTTP200(hp2[ref])
                ELSE /\ response' = HTTP200(hp2[ref])
                     /\ UNCHANGED <<log, memory_cache, redis_db, heap>>
    /\ UNCHANGED <<config, direct, rest, now, ticks>>

(***************************************************************************)
(* The administrative endpoints and the clock.                             *)
(***************************************************************************)
\* POST /cache/clear, app.py:366-373
clear_cache(fault) ==
    /\ frame.pc = "idle"
    /\ LET r == CacheManager_clear(fault)
       IN  /\ memory_cache' = r.mem
           /\ redis_db' = r.rdb
           /\ heap' = Collect(heap, r.mem)
           /\ log' = <<[op |-> "clear", key |-> None, io |-> TRUE, caught |-> r.caught]>>
           /\ response' = IF r.exc # NoExc THEN HTTP500(r.exc)
                          ELSE HTTP200([message |-> "Cache cleared successfully"])
    /\ frame' = Done([Idle EXCEPT !.handler = "clear_cache"])
    /\ calls' = <<>>
    /\ UNCHANGED <<config, direct, rest, now, ticks>>

\* GET /cache/stats, app.py:356-363
cache_stats ==
    /\ frame.pc = "idle"
    /\ frame' = Done([Idle EXCEPT !.handler = "cache_stats"])
    /\ response' = HTTP200(
           [cache_enabled |-> CACHE_ENABLED,
            cache_type |-> cache_type,
            memory_cache_size |-> IF cache_type = "memory"
                                  THEN Cardinality(DOMAIN memory_cache) ELSE 0])
    /\ log' = <<>>
    /\ calls' = <<>>
    /\ UNCHANGED <<config, direct, rest, memory_cache, redis_db, heap, now, ticks>>

\* the response has been sent; the server waits for the next request
respond ==
    /\ frame.pc = "done"
    /\ frame' = Idle
    /\ response' = NoResponse
    /\ log' = <<>>
    /\ calls' = <<>>
    /\ UNCHANGED <<config, direct, rest, memory_cache, redis_db, heap, now, ticks>>

\* time passes
Delta == TTL_RESPONSE \div 2

Tick ==
    /\ frame.pc = "idle"
    /\ ticks < MaxTicks
    /\ ticks' = ticks + 1
    /\ now' = now + Delta
    /\ redis_db' = redis_expire(redis_db, now + Delta)
    /\ UNCHANGED <<config, direct, rest, memory_cache, heap, frame, response, log, calls>>

ProviderOutcomes == {NoExc, "APIError"}
OpenAIOutcomes == {NoExc, "APIError", "APITimeoutError"}

Next ==
    \/ \E q \in Questions, top_k \in TopKs, use_cache \in BOOLEAN, f \in PossibleFaults :
           api_report_begin(q, top_k, use_cache, f)
    \/ \E f \in PossibleFaults, c \in ProviderOutcomes : retrieve_begin(f, c)
    \/ \E f \in PossibleFaults : embed_begin(f)
    \/ \E o \in OpenAIOutcomes, f \in SetFaults : embed_create(o, f)
    \/ \E o \in ProviderOutcomes, size \in {0, NDocs}, f \in SetFaults : retrieve_query(o, size, f)
    \/ \E o \in OpenAIOutcomes, raw \in LLMTexts, f \in SetFaults : api_report_finish(o, raw, f)
    \/ \E f \in SetFaults : clear_cache(f)
    \/ cache_stats
    \/ respond
    \/ Tick

Spec == Init /\ [][Next]_vars

(***************************************************************************)
(* Properties of the handlers, checked under Spec.                         *)
(***************************************************************************)
ReportDone == frame.handler = "api_report" /\ frame.pc = "done"

\* the key begins with these characters
StartsWith(key, chars) == Len(key) >= Len(chars) /\ SubSeq(key, 1, Len(chars)) = chars

\* the cache layer a key belongs to, read from its prefix
key_tag(key) ==
    CASE StartsWith(key, <<"e", "m", "b", "e", "d", ":">>) -> "embed"
      [] StartsWith(key, <<"r", "e", "t", "r", "i", "e", "v", "a", "l", ":">>) -> "retrieval"
      [] StartsWith(key, <<"r", "e", "s", "p", "o", "n", "s", "e", ":">>) -> "response"
      [] OTHER -> "none"
ReportOK == ReportDone /\ response.status = 200
ClearDone == frame.handler = "clear_cache" /\ frame.pc = "done"

\* the positions of the log at which the backend was used
BackendUses == {i \in 1..Len(log) : log[i].op \in {"get", "set"} /\ log[i].io}

\* the positions of the log at which a get met a fault of the backend
FaultedGets == {i \in 1..Len(log) : log[i].op = "get" /\ log[i].caught # NoExc}

Called(c) == \E i \in 1..Len(calls) : calls[i] = c

\* the keys the handlers and the earlier process use
AllKeys == UNION {{get_embedding_key(q), get_retrieval_key(q, TOP_K), get_response_key(q, TOP_K)}
                  : q \in Questions}

\* C1: a /report request with use_cache = false makes no use of the cache
\* backend on any of the three layers.
C1_BypassTouchesNoCache ==
    (frame.handler = "api_report" /\ ~frame.use_cache) => BackendUses = {}

\* C2: every Answer record held in the cache, on either backend, has
\* cached = FALSE.
C2_StoredRecordNeverCached ==
    /\ \A key \in DOMAIN memory_cache :
           IsRef(memory_cache[key][1]) => ~heap[memory_cache[key][1].ref].cached
    /\ \A key \in DOMAIN redis_db :
           DOMAIN pickle_content(redis_db[key].data) = {"instance"}
               => ~pickle_content(redis_db[key].data).instance.cached

\* C4: when the flush of clear() fails, /cache/clear answers with status 500.
C4_FailedClearReported ==
    (ClearDone /\ log[1].caught # NoExc) => response.status = 500

\* C5: a fault of the backend during get never reaches the caller: the
\* request fails only for a failure of a provider, and a request that succeeds
\* has made the expensive call of every layer whose get met the fault, with
\* the answer marked cached = FALSE when the answer layer met it.
UpstreamErrors == {"APIError", "APITimeoutError", "ValueError", "JSONDecodeError", "AttributeError"}

C5_GetFaultIsAMiss ==
    (ReportDone /\ FaultedGets # {}) =>
        /\ response.status = 500 => response.body.detail \in UpstreamErrors
        /\ response.status = 200 =>
               \A i \in FaultedGets :
                   /\ key_tag(log[i].key) = "response" =>
                          ~response.body.cached /\ Called("chat.completions.create")
                   /\ key_tag(log[i].key) = "retrieval" => Called("col.query")
                   /\ key_tag(log[i].key) = "embed" => Called("embeddings.create")

C5_Witness ==
    /\ ReportOK
    /\ \E i \in FaultedGets : key_tag(log[i].key) = "response"
    /\ \E i \in FaultedGets : key_tag(log[i].key) = "embed"
    /\ ~response.body.cached

\* C8: with CACHE_ENABLED false no get or set uses the backend, the stores
\* keep what they held at start, and every /report request that succeeds has
\* made its three expensive calls and is not marked cached.
C8_DisabledCacheIsInert ==
    ~CACHE_ENABLED =>
        /\ BackendUses = {}
        /\ memory_cache = Empty
        /\ redis_db \in RedisAtStart
        /\ ReportOK =>
               /\ calls = <<"embeddings.create", "col.query", "chat.completions.create">>
               /\ ~response.body.cached

C8_Witness ==
    /\ ~CACHE_ENABLED
    /\ cache_type = "redis"
    /\ redis_db # Empty
    /\ ReportOK
    /\ frame.use_cache
    /\ Len(log) = 6

\* C9: right after a clear() that returned, a get of any key reports absent.
C9_ClearedKeysAbsent ==
    (ClearDone /\ response.status = 200) =>
        \A key \in AllKeys : CacheManager_get(key, NoExc).ret = None

\* C9, the part that holds: after a clear() whose flush went through, a get
\* of any key reports absent, and the memory map is empty.
C9_FlushedKeysAbsent ==
    (ClearDone /\ log[1].caught = NoExc) =>
        /\ \A key \in AllKeys : CacheManager_get(key, NoExc).ret = None
        /\ cache_type = "memory" => memory_cache = Empty

\* C10: when redis was requested and could not be connected, the manager
\* works on the in-process map and leaves redis alone; the backend in use
\* never changes.
C10_FallbackToMemory ==
    /\ [](CACHE_TYPE = "redis" /\ connect # "ok"
            => cache_type = "memory" /\ redis_db \in RedisAtStart)
    /\ [](CACHE_TYPE = "redis" /\ connect = "ok" => cache_type = "redis")
    /\ [][(CACHE_TYPE = "redis" /\ connect # "ok") => redis_db' = redis_db]_vars
    /\ [][cache_type' = cache_type]_vars

C10_Witness ==
    /\ CACHE_TYPE = "redis"
    /\ connect = "Exception"
    /\ cache_type = "memory"
    /\ redis_db # Empty
    /\ Cardinality(DOMAIN memory_cache) = 3

\* the positions of the log at which a set met a fault of the backend
FaultedSets == {i \in 1..Len(log) : log[i].op = "set" /\ log[i].caught # NoExc}

\* the step made a set, and the set met a fault of the backend
SetFaulted ==
    /\ Len(log') > Len(log)
    /\ log'[Len(log')].op = "set"
    /\ log'[Len(log')].caught # NoExc

\* C11: a fault of the backend during set never reaches the caller: the
\* wrapping operation goes on with the value it computed (embed hands the
\* embedding to the query, retrieve hands the chunks to the generation,
\* api_report answers 200 with the fresh answer), a request fails only for a
\* failure of a provider, and the step of the faulted set stores nothing.
C11_SetFaultIsDropped ==
    /\ []((frame.handler = "api_report" /\ FaultedSets # {}) =>
            /\ (ReportDone /\ response.status = 500) => response.body.detail \in UpstreamErrors
            /\ LET e == log[Len(log)]
               IN  (Len(log) \in FaultedSets /\ calls # <<>>) =>
                     /\ (key_tag(e.key) = "embed" /\ calls[Len(calls)] = "embeddings.create") =>
                            frame.pc = "query" /\ frame.q_emb = embedding_of(frame.question)
                     /\ (key_tag(e.key) = "retrieval" /\ calls[Len(calls)] = "col.query") =>
                            /\ frame.pc = "generate"
                            /\ frame.contexts \in {query_result(n, frame.k) : n \in 0..NDocs}
                     /\ key_tag(e.key) = "response" =>
                            /\ ReportOK
                            /\ ~response.body.cached
                            /\ response.body.retrieved_chunks = Len(frame.contexts.list))
    /\ [][SetFaulted => redis_db' = redis_db /\ memory_cache' = memory_cache]_vars

C11_Witness ==
    /\ ReportOK
    /\ Cardinality(FaultedSets) = 3
    /\ redis_db = Empty
    /\ response.body.retrieved_chunks = NDocs

\* the cache layer in front of an expensive call
TagOf(c) == CASE c = "embeddings.create" -> "embed"
              [] c = "col.query" -> "retrieval"
              [] c = "chat.completions.create" -> "response"

\* the text ends in a JSON object and holds no other
Usable(raw) ==
    /\ raw # <<>>
    /\ DOMAIN raw[Len(raw)] = {"object"}
    /\ \A i \in 1..(Len(raw) - 1) : DOMAIN raw[i] # {"object"}

\* the step made an expensive call, and the request failed in it
CallFailed ==
    /\ Len(calls') > Len(calls)
    /\ response'.status = 500

\* C12: a request that ends in an expensive call ends with an error exactly
\* when the call failed (the provider raised, or the generated text holds no
\* JSON object to build the answer from); the error names the provider's
\* failure, the request has made no set under the key of the layer of that
\* call, and the step of the failed call writes nothing to either store.
C12_UpstreamFailureSurfaces ==
    /\ []((ReportDone /\ calls # <<>>) =>
            LET c == calls[Len(calls)]
            IN  /\ c # "chat.completions.create" => response.status = 500
                /\ c = "chat.completions.create" =>
                       IF Usable(frame.raw)
                       THEN response = HTTP200(AskResponse(frame.raw[Len(frame.raw)].object,
                                                           frame.contexts))
                       ELSE response.status = 500
                /\ response.status = 500 =>
                       /\ response.body.detail \in UpstreamErrors
                       /\ \A i \in 1..Len(log) :
                              log[i].op = "set" => key_tag(log[i].key) # TagOf(c))
    /\ [][CallFailed => memory_cache' = memory_cache /\ redis_db' = redis_db]_vars

C12_Witness ==
    /\ ReportDone
    /\ frame.use_cache
    /\ frame.raw = <<Obj(SqlAnswer), Junk, Obj(AssumptionsAnswer)>>
    /\ response = HTTP500("JSONDecodeError")
    /\ get_retrieval_key(frame.question, frame.k) \in DOMAIN memory_cache
    /\ get_response_key(frame.question, frame.k) \notin DOMAIN memory_cache

\* the expensive call behind a cache layer, and the request's key of the layer
CallOf(tag) == CASE tag = "embed" -> "embeddings.create"
                 [] tag = "retrieval" -> "col.query"
                 [] tag = "response" -> "chat.completions.create"

KeyOf(tag) == CASE tag = "embed" -> get_embedding_key(frame.question)
                [] tag = "retrieval" -> get_retrieval_key(frame.question, frame.k)
                [] tag = "response" -> get_response_key(frame.question, frame.k)

Layers == {"embed", "retrieval", "response"}

\* the positions of the log at which the layer was looked up and written
GetsOf(tag) == {i \in 1..Len(log) : log[i].op = "get" /\ key_tag(log[i].key) = tag /\ log[i].io}
SetsOf(tag) == {i \in 1..Len(log) : log[i].op = "set" /\ key_tag(log[i].key) = tag /\ log[i].io}

\* how often the request made the call
Count(c) == Cardinality({i \in 1..Len(calls) : calls[i] = c})

\* the operation of the layer has returned, with this value
Returned_(tag) == CASE tag = "embed" -> frame.q_emb # None
                    [] tag = "retrieval" -> frame.contexts # None
                    [] tag = "response" -> ReportOK

ValueOf(tag) == CASE tag = "embed" -> frame.q_emb
                  [] tag = "retrieval" -> frame.contexts
                  [] tag = "response" -> response.body

\* what the store holds under the key: the value (for an answer, its fields)
InStore(key) == IF cache_type = "redis" THEN key \in DOMAIN redis_db
                ELSE key \in DOMAIN memory_cache

StoredValue(key) ==
    IF cache_type = "redis"
    THEN (IF DOMAIN pickle_content(redis_db[key].data) = {"instance"}
          THEN pickle_content(redis_db[key].data).instance
          ELSE pickle_content(redis_db[key].data))
    ELSE (IF IsRef(memory_cache[key][1])
          THEN heap[memory_cache[key][1].ref] ELSE memory_cache[key][1])

\* the store holds the entry as written just now with this ttl
StoredNow(key, ttl) ==
    IF cache_type = "redis"
    THEN redis_db[key].expire_at = now + ttl
    ELSE memory_cache[key][2] = now /\ memory_cache[key][3] = ttl

\* C14: in every request, for each of the three layers: the expensive call
\* is made at most once; after a hit the call is not made, nothing is set,
\* and the operation returns the stored value (an answer with cached = TRUE);
\* after a miss, once the operation has returned, the call was made exactly
\* once and was followed by one set under the layer's key with the layer's
\* TTL (86400, 21600, 3600), and unless that set met a fault the store holds
\* the returned value under that key, written now with that TTL; and every
\* set is made in the step of its expensive call.
C14_GetComputeSet ==
    /\ [](frame.handler = "api_report" =>
            \A tag \in Layers :
                LET ttl == CASE tag = "embed" -> 86400
                             [] tag = "retrieval" -> 21600
                             [] tag = "response" -> 3600
                    key == KeyOf(tag)
                IN  /\ Count(CallOf(tag)) <= 1
                    /\ \A i \in SetsOf(tag) :
                           /\ log[i].key = key /\ log[i].ttl = ttl
                           /\ Count(CallOf(tag)) = 1
                    /\ (\E i \in GetsOf(tag) : log[i].hit) =>
                           /\ Count(CallOf(tag)) = 0
                           /\ SetsOf(tag) = {}
                           /\ Returned_(tag)
                           /\ InStore(key)
                           /\ ValueOf(tag) = IF tag = "response"
                                             THEN [StoredValue(key) EXCEPT !.cached = TRUE]
                                             ELSE StoredValue(key)
                    /\ ((\E i \in GetsOf(tag) : ~log[i].hit) /\ Returned_(tag)) =>
                           /\ Count(CallOf(tag)) = 1
                           /\ Cardinality(SetsOf(tag)) = 1
                           /\ \A i \in GetsOf(tag), j \in SetsOf(tag) :
                                  /\ i < j
                                  /\ log[j].caught = NoExc =>
                                         /\ InStore(key)
                                         /\ StoredValue(key) = ValueOf(tag)
                                         /\ StoredNow(key, ttl))
    /\ [][(Len(log') > Len(log) /\ log'[Len(log')].op = "set") =>
              calls' = Append(calls, CallOf(key_tag(log'[Len(log')].key)))]_vars

C14_Witness ==
    /\ ReportOK /\ cache_type = "redis" /\ CACHE_ENABLED
    /\ \E i \in GetsOf("embed") : log[i].hit
    /\ \E i \in GetsOf("retrieval") : ~log[i].hit
    /\ \E i \in SetsOf("response") : log[i].caught = NoExc
    /\ calls = <<"col.query", "chat.completions.create">>
    /\ Cardinality(DOMAIN redis_db) = 3

\* the place of a cache access in the descent through the layers and back
Rank(e) == CASE e.op = "get" /\ key_tag(e.key) = "response" -> 1
             [] e.op = "get" /\ key_tag(e.key) = "retrieval" -> 2
             [] e.op = "get" /\ key_tag(e.key) = "embed" -> 3
             [] e.op = "set" /\ key_tag(e.key) = "embed" -> 4
             [] e.op = "set" /\ key_tag(e.key) = "retrieval" -> 5
             [] e.op = "set" /\ key_tag(e.key) = "response" -> 6

\* C15: in a /report request with use_cache = true the cache accesses come
\* in the order answer get, retrieval get, embedding get, embedding set,
\* retrieval set, answer set, each at most once: the first access is the
\* answer get, the answer set is the last, and after a hit at a layer no
\* access is made to that layer or a deeper one.
C15_AccessOrder ==
    (frame.handler = "api_report" /\ frame.use_cache) =>
        /\ log # <<>> => Rank(log[1]) = 1
        /\ \A i, j \in 1..Len(log) : i < j => Rank(log[i]) < Rank(log[j])
        /\ \A i \in 1..Len(log) :
               (log[i].op = "get" /\ log[i].hit) =>
                   \A j \in 1..Len(log) :
                       j > i => Rank(log[j]) > 7 - Rank(log[i])
        /\ \A i \in 1..Len(log) :
               Rank(log[i]) \in {3, 4} => \E j \in 1..(i - 1) : Rank(log[j]) = 2

C15_Witness ==
    /\ frame.handler = "api_report" /\ frame.use_cache
    /\ Len(log) = 3
    /\ log[2].hit
    /\ Rank(log[3]) = 6
    /\ ReportOK

\* C17: an answer that was computed in this request reports the length of
\* the chunk sequence retrieve returned: the length of the stored sequence
\* after a retrieval-cache hit, the length of the vector store's result
\* otherwise; an answer served from the answer cache reports the count held
\* in the stored answer.
C17_ChunkCountReported ==
    ReportOK =>
        IF calls = <<>>
        THEN /\ InStore(KeyOf("response"))
             /\ response.body.retrieved_chunks = StoredValue(KeyOf("response")).retrieved_chunks
        ELSE /\ response.body.retrieved_chunks = Len(frame.contexts.list)
             /\ (\E i \in GetsOf("retrieval") : log[i].hit) =>
                    /\ InStore(KeyOf("retrieval"))
                    /\ ~Called("col.query")
                    /\ response.body.retrieved_chunks = Len(StoredValue(KeyOf("retrieval")).list)
             /\ Called("col.query") =>
                    \E size \in 0..NDocs :
                        /\ frame.contexts = query_result(size, frame.k)
                        /\ response.body.retrieved_chunks = IF size < frame.k THEN size ELSE frame.k

C17_Witness ==
    /\ ReportOK
    /\ calls = <<"chat.completions.create">>
    /\ \E i \in GetsOf("retrieval") : log[i].hit
    /\ response.body.retrieved_chunks = NDocs
    /\ cache_type = "redis"

\* the layer whose operation produces a value of this shape
KindOf(value) == IF DOMAIN value = {"embedding"} THEN "embed"
                 ELSE IF DOMAIN value = {"list"} THEN "retrieval"
                 ELSE "response"

\* C20, in the handlers: every entry of either store lies under a key of the
\* layer that wrote it, and the value an operation takes from the cache is
\* of its own layer.
C20_LayersHoldTheirOwn ==
    /\ \A key \in DOMAIN memory_cache :
           key_tag(key) = IF IsRef(memory_cache[key][1]) THEN "response"
                          ELSE KindOf(memory_cache[key][1])
    /\ \A key \in DOMAIN redis_db :
           key_tag(key) = IF DOMAIN pickle_content(redis_db[key].data) = {"instance"}
                          THEN "response"
                          ELSE KindOf(pickle_content(redis_db[key].data))
    /\ frame.q_emb # None => KindOf(frame.q_emb) = "embed"
    /\ frame.contexts # None => KindOf(frame.contexts) = "retrieval"

(***************************************************************************)
(* A client repeating /report requests against a cache that starts empty,  *)
(* with caching enabled and time passing between the requests.  latest     *)
(* remembers, for each answer key, the last answer that was computed and    *)
(* stored, and when.                                                        *)
(***************************************************************************)
TwiceQuestions == {<<"a", ":", "6">>}
TwiceTopKs == {None, PyInt(TOP_K)}

InitTwice == Init /\ CACHE_ENABLED

\* the request in progress computed its answer and its set went through
StoredFresh ==
    /\ ReportOK
    /\ frame.use_cache
    /\ calls # <<>>
    /\ log[Len(log)].op = "set"
    /\ log[Len(log)].caught = NoExc

\* the response has been sent, app.py:397 and 421
respond_recorded ==
    /\ frame.pc = "done"
    /\ frame' = Idle
    /\ response' = NoResponse
    /\ log' = <<>>
    /\ calls' = <<>>
    /\ latest' = IF StoredFresh
                 THEN (get_response_key(frame.question, frame.k) :> <<response.body, now>>) @@ latest
                 ELSE latest
    /\ UNCHANGED <<config, rest, last, memory_cache, redis_db, heap, now, ticks>>

TwiceNext ==
    \/ \E q \in TwiceQuestions, top_k \in TwiceTopKs, use_cache \in BOOLEAN, f \in PossibleFaults :
           api_report_begin(q, top_k, use_cache, f)
    \/ \E f \in PossibleFaults, c \in ProviderOutcomes : retrieve_begin(f, c)
    \/ \E f \in PossibleFaults : embed_begin(f)
    \/ \E o \in OpenAIOutcomes, f \in SetFaults : embed_create(o, f)
    \/ \E o \in ProviderOutcomes, f \in SetFaults : retrieve_query(o, NDocs, f)
    \/ \E o \in OpenAIOutcomes, raw \in LLMTexts, f \in SetFaults : api_report_finish(o, raw, f)
    \/ respond_recorded
    \/ Tick

SpecTwice == InitTwice /\ [][TwiceNext]_vars

\* C13: a /report request with use_cache = true whose gets met no fault is
\* answered from the cache exactly when an answer to the same question and k
\* was computed and stored less than 3600 seconds ago: it then returns that
\* answer with cached = TRUE and every other field equal, and makes no
\* expensive call; otherwise (nothing stored yet, as on an empty cache, or
\* the TTL has elapsed) it returns a computed answer with cached = FALSE.
C13_SecondRequestServedFromCache ==
    (ReportOK /\ frame.use_cache /\ FaultedGets = {}) =>
        LET key == get_response_key(frame.question, frame.k)
        IN  IF key \in DOMAIN latest /\ now - latest[key][2] < 3600
            THEN /\ response.body = [latest[key][1] EXCEPT !.cached = TRUE]
                 /\ calls = <<>>
            ELSE /\ ~response.body.cached
                 /\ Called("chat.completions.create")

C13_Witness ==
    /\ ReportOK /\ frame.use_cache /\ FaultedGets = {}
    /\ get_response_key(frame.question, frame.k) \in DOMAIN latest
    /\ now - latest[get_response_key(frame.question, frame.k)][2] = Delta
    /\ ~latest[get_response_key(frame.question, frame.k)][1].cached
    /\ response.body.cached
    /\ response.body.retrieved_chunks = NDocs
    /\ calls = <<>>

(***************************************************************************)
(* The CacheManager on its own: get, set and clear called directly, as a   *)
(* unit test does, with the clock advancing one second at a time.          *)
(***************************************************************************)
StoreKeys == {get_retrieval_key(<<"a">>, 1), get_retrieval_key(<<"a", "b">>, 1)}
StoreValues == {query_result(0, TOP_K), query_result(NDocs, TOP_K)}
StoreTTLs == {1, 2}

store_get(key, fault) ==
    LET g == CacheManager_get(key, fault)
    IN  /\ memory_cache' = g.mem
        /\ heap' = Collect(g.hp, g.mem)
        /\ last' = [op |-> "get", key |-> key, ret |-> g.ret, at |-> now, caught |-> g.caught,
                    hit |-> is_hit(g.ret)]
        /\ UNCHANGED <<config, handlers, rest, redis_db, now, ticks, latest>>

store_set(key, value, ttl, fault) ==
    LET r == CacheManager_set(key, value, ttl, fault, heap)
    IN  /\ memory_cache' = r.mem
        /\ redis_db' = r.rdb
        /\ last' = [op |-> "set", key |-> key, ret |-> None, at |-> now, caught |-> r.caught]
        /\ latest' = (key :> <<value, now, ttl, r.caught>>) @@ latest
        /\ UNCHANGED <<config, handlers, rest, heap, now, ticks>>

store_clear(fault) ==
    LET r == CacheManager_clear(fault)
    IN  /\ memory_cache' = r.mem
        /\ redis_db' = r.rdb
        /\ last' = [op |-> "clear", key |-> None, ret |-> None, at |-> now, caught |-> r.caught]
        /\ latest' = Empty
        /\ UNCHANGED <<config, handlers, rest, heap, now, ticks>>

StoreTick ==
    /\ ticks < MaxTicks
    /\ ticks' = ticks + 1
    /\ now' = now + 1
    /\ redis_db' = redis_expire(redis_db, now + 1)
    /\ UNCHANGED <<config, handlers, rest, direct, memory_cache, heap>>

StoreNext ==
    \/ \E key \in StoreKeys, f \in PossibleFaults : store_get(key, f)
    \/ \E key \in StoreKeys, value \in StoreValues, ttl \in StoreTTLs, f \in SetFaults :
           store_set(key, value, ttl, f)
    \/ \E f \in SetFaults : store_clear(f)
    \/ StoreTick

SpecStore == Init /\ [][StoreNext]_vars

\* C3: on the memory backend with caching enabled, get(key) returns the value
\* of the most recent set(key, value, ttl) exactly when now - stored_at < ttl;
\* otherwise it returns absent and the entry is no longer in the map.
C3_GetHonoursTTL ==
    (CACHE_ENABLED /\ cache_type = "memory" /\ last.op = "get") =>
        LET key == last.key
        IN  IF key \in DOMAIN latest /\ last.at - latest[key][2] < latest[key][3]
            THEN last.ret = latest[key][1]
            ELSE last.ret = None /\ key \notin DOMAIN memory_cache

C3_Witness ==
    /\ CACHE_ENABLED /\ cache_type = "memory" /\ last.op = "get"
    /\ last.key \in DOMAIN latest
    /\ latest[last.key][3] = 1
    /\ last.at - latest[last.key][2] = 2
    /\ last.ret = None
    /\ \E other \in DOMAIN memory_cache : other # last.key

\* C18: with caching enabled, on either backend, a get that met no fault,
\* made before the expiry of the last set of its key (a set that went
\* through), returns the sequence that was set: the same length, the same
\* (chunk, metadata) pair at every position; and the caller's test takes it
\* for a hit, the empty sequence included.
C18_RetrievalRoundTrip ==
    (/\ CACHE_ENABLED /\ last.op = "get" /\ last.caught = NoExc
     /\ last.key \in DOMAIN latest
     /\ latest[last.key][4] = NoExc
     /\ last.at - latest[last.key][2] < latest[last.key][3]) =>
        LET result == latest[last.key][1]
        IN  /\ last.hit
            /\ DOMAIN last.ret = {"list"}
            /\ Len(last.ret.list) = Len(result.list)
            /\ \A i \in 1..Len(result.list) : last.ret.list[i] = result.list[i]

C18_Witness ==
    /\ CACHE_ENABLED /\ cache_type = "redis" /\ last.op = "get" /\ last.caught = NoExc
    /\ last.key \in DOMAIN latest
    /\ latest[last.key][4] = NoExc
    /\ last.at - latest[last.key][2] = 1
    /\ latest[last.key][1] = query_result(0, TOP_K)
    /\ last.hit
    /\ \E other \in DOMAIN latest : Len(latest[other][1].list) = NDocs

\* the entry under key has reached its expiry
Expired(key) == ~(now - memory_cache[key][2] < memory_cache[key][3])

\* C19, one caller at a time: on the memory backend a call changes the map
\* only as follows: an entry disappears through clear() or through a get of
\* its own key that found it expired, and an entry appears or changes only
\* through a set of its own key; so a get leaves every other key alone, and
\* a get that hits leaves the whole map as it was.
C19_GetFrameSequential ==
    [][(CACHE_ENABLED /\ cache_type = "memory") =>
          /\ \A key \in DOMAIN memory_cache :
                 key \notin DOMAIN memory_cache' =>
                     \/ last'.op = "clear"
                     \/ last'.op = "get" /\ last'.key = key /\ Expired(key)
          /\ \A key \in DOMAIN memory_cache' :
                 (key \notin DOMAIN memory_cache \/ memory_cache'[key] # memory_cache[key]) =>
                     last'.op = "set" /\ last'.key = key
          /\ (last'.op = "get" /\ last'.ret # None) => memory_cache' = memory_cache]_vars

(***************************************************************************)
(* Concurrent request handlers calling get and set on one key of the       *)
(* memory backend.  Each step is one access to the shared dict or to the   *)
(* clock; the interpreter may switch threads between any two of them.      *)
(***************************************************************************)
ConcKey == get_embedding_key(<<"a">>)
ConcValues == {embedding_of(<<"a">>), embedding_of(<<"b">>)}
ConcTTLs == {1, 2}

InitConc ==
    /\ CACHE_ENABLED = TRUE
    /\ CACHE_TYPE = "memory"
    /\ connect = "none"
    /\ cache_type = CacheManager_init(CACHE_TYPE, connect)
    /\ memory_cache = Empty
    /\ redis_db = Empty
    /\ heap = Empty
    /\ now = 0
    /\ ticks = 0
    /\ frame = Idle
    /\ response = NoResponse
    /\ log = <<>>
    /\ calls = <<>>
    /\ last = NoCall
    /\ latest = Empty
    /\ threads = [t \in Threads |-> Returned]
    /\ derived = NoKeys

quiet == <<config, handlers, direct, derived, redis_db, heap, ticks>>

\* get, app.py:97-105: the call, the CACHE_ENABLED test and "key in self.memory_cache"
get_in(t, key) ==
    /\ threads[t].pc = "returned"
    /\ CACHE_ENABLED /\ cache_type # "redis"
    /\ threads' = [threads EXCEPT ![t] =
           IF key \in DOMAIN memory_cache
           THEN [pc |-> "get_read", key |-> key]
           ELSE Returned]
    /\ UNCHANGED <<quiet, memory_cache, now>>

\* get, app.py:106: value, timestamp, ttl = self.memory_cache[key]; a KeyError
\* is caught at app.py:112-114 and get returns None
get_read(t) ==
    /\ threads[t].pc = "get_read"
    /\ threads' = [threads EXCEPT ![t] =
           IF threads[t].key \in DOMAIN memory_cache
           THEN [pc |-> "get_check", key |-> threads[t].key,
                 timestamp |-> memory_cache[threads[t].key][2],
                 ttl |-> memory_cache[threads[t].key][3]]
           ELSE Returned]
    /\ UNCHANGED <<quiet, memory_cache, now>>

\* get, app.py:107-108: the expiry test on the values read, and the return of a hit
get_check(t) ==
    /\ threads[t].pc = "get_check"
    /\ threads' = [threads EXCEPT ![t] =
           IF now - threads[t].timestamp < threads[t].ttl
           THEN Returned
           ELSE [pc |-> "get_del", key |-> threads[t].key]]
    /\ UNCHANGED <<quiet, memory_cache, now>>

\* get, app.py:110-111: del self.memory_cache[key]; a KeyError is caught at
\* app.py:112-114
get_del(t) ==
    /\ threads[t].pc = "get_del"
    /\ memory_cache' = IF threads[t].key \in DOMAIN memory_cache
                       THEN Del(memory_cache, threads[t].key)
                       ELSE memory_cache
    /\ threads' = [threads EXCEPT ![t] = Returned]
    /\ UNCHANGED <<quiet, now>>

\* set, app.py:118-125: the call and the evaluation of (value, datetime.now(), ttl)
set_now(t, key, value, ttl) ==
    /\ threads[t].pc = "returned"
    /\ CACHE_ENABLED /\ cache_type # "redis"
    /\ threads' = [threads EXCEPT ![t] =
           [pc |-> "set_store", key |-> key, entry |-> <<value, now, ttl>>]]
    /\ UNCHANGED <<quiet, memory_cache, now>>

\* a store that writes the value and the ttl into the entry already there
set_store_fields(t) ==
    /\ threads[t].pc = "set_store"
    /\ memory_cache' =
           (threads[t].key :>
               IF threads[t].key \in DOMAIN memory_cache
               THEN <<threads[t].entry[1], memory_cache[threads[t].key][2], threads[t].entry[3]>>
               ELSE threads[t].entry) @@ memory_cache
    /\ threads' = [threads EXCEPT ![t] = Returned]
    /\ UNCHANGED <<quiet, now>>

\* set, app.py:125: self.memory_cache[key] = ...
set_store(t) ==
    /\ threads[t].pc = "set_store"
    /\ memory_cache' = (threads[t].key :> threads[t].entry) @@ memory_cache
    /\ threads' = [threads EXCEPT ![t] = Returned]
    /\ UNCHANGED <<quiet, now>>

ConcTick ==
    /\ ticks < MaxTicks
    /\ ticks' = ticks + 1
    /\ now' = now + 1
    /\ UNCHANGED <<config, handlers, direct, rest, memory_cache, redis_db, heap>>

ConcNext ==
    \/ \E t \in Threads : get_in(t, ConcKey)
    \/ \E t \in Threads : get_read(t)
    \/ \E t \in Threads : get_check(t)
    \/ \E t \in Threads : get_del(t)
    \/ \E t \in Threads, value \in ConcValues, ttl \in ConcTTLs : set_now(t, ConcKey, value, ttl)
    \/ \E t \in Threads : set_store(t)
    \/ ConcTick

SpecConc == InitConc /\ [][ConcNext]_vars

\* C6: no step removes an entry that has not expired: a get deletes only
\* the expired entry it has tested.
C6_GetRemovesOnlyExpired ==
    [][\A key \in DOMAIN memory_cache :
           key \notin DOMAIN memory_cache'
               => ~(now - memory_cache[key][2] < memory_cache[key][3])]_vars

\* the set of thread t completes in this step
Completes(t) == threads[t].pc = "set_store" /\ threads'[t].pc = "returned"

\* C16: the triple a set writes is formed from its own value, its own ttl
\* and the clock at its call; when a set completes, the store holds exactly
\* that triple under the key, whatever completed before; and an entry of the
\* store appears or changes only in the step in which a set completes, and
\* then as that set's whole triple.
C16_LastWriteWins ==
    [][/\ \A t \in Threads :
              (threads'[t].pc = "set_store" /\ threads[t].pc # "set_store") =>
                  /\ threads'[t].entry[1] \in ConcValues
                  /\ threads'[t].entry[2] = now
                  /\ threads'[t].entry[3] \in ConcTTLs
       /\ \A t \in Threads :
              Completes(t) =>
                  /\ threads[t].key \in DOMAIN memory_cache'
                  /\ memory_cache'[threads[t].key] = threads[t].entry
       /\ \A key \in DOMAIN memory_cache' :
              (key \notin DOMAIN memory_cache \/ memory_cache'[key] # memory_cache[key]) =>
                  \E t \in Threads :
                      /\ Completes(t)
                      /\ threads[t].key = key
                      /\ memory_cache'[key] = threads[t].entry]_vars

\* the store holds the entry of a set that began later than a set of the other
\* thread that has yet to write
C16_Witness ==
    \E t \in Threads, u \in Threads :
        /\ t # u
        /\ threads[t].pc = "set_store"
        /\ threads[u].pc = "returned"
        /\ threads[t].key \in DOMAIN memory_cache
        /\ memory_cache[threads[t].key][2] > threads[t].entry[2]
        /\ memory_cache[threads[t].key][1] # threads[t].entry[1]

\* C19: on the memory backend an entry disappears only when a get of its
\* own key evicts it, and then the entry has expired; an entry appears or
\* changes only when a set of its own key writes it; every other step of a
\* get, a hit included, leaves the map as it was.
C19_GetFrame ==
    [][/\ \A key \in DOMAIN memory_cache :
              key \notin DOMAIN memory_cache' =>
                  /\ Expired(key)
                  /\ \E t \in Threads :
                         /\ threads[t].pc = "get_del"
                         /\ threads[t].key = key
                         /\ threads'[t].pc = "returned"
       /\ \A key \in DOMAIN memory_cache' :
              (key \notin DOMAIN memory_cache \/ memory_cache'[key] # memory_cache[key]) =>
                  \E t \in Threads : Completes(t) /\ threads[t].key = key]_vars

(***************************************************************************)
(* Key derivation on its own: _hash_key applied to two argument tuples.    *)
(***************************************************************************)
KeyParts == {PyStr(<<"a">>), PyStr(<<"b">>), PyStr(<<"a", ":", "b">>), PyStr(<<"b", ":", "b">>),
             PyInt(1), PyInt(12)}
KeyTuples == {<<p>> : p \in KeyParts} \cup {<<p, q>> : p \in KeyParts, q \in KeyParts}

InitKey ==
    /\ CACHE_ENABLED = TRUE
    /\ CACHE_TYPE = "memory"
    /\ connect = "none"
    /\ cache_type = CacheManager_init(CACHE_TYPE, connect)
    /\ memory_cache = Empty
    /\ redis_db = Empty
    /\ heap = Empty
    /\ now = 0
    /\ ticks = 0
    /\ frame = Idle
    /\ response = NoResponse
    /\ log = <<>>
    /\ calls = <<>>
    /\ last = NoCall
    /\ latest = Empty
    /\ threads = [t \in Threads |-> Returned]
    /\ derived \in {[fn |-> "args", a |-> x, b |-> y] : x \in KeyTuples, y \in KeyTuples}

\* cache_manager._hash_key(*a) and cache_manager._hash_key(*b)
hash_key_call ==
    /\ derived.fn = "args"
    /\ derived' = [fn |-> "_hash_key", a |-> derived.a, b |-> derived.b,
                   key_a |-> _hash_key(derived.a), key_b |-> _hash_key(derived.b)]
    /\ UNCHANGED <<config, handlers, direct, threads, memory_cache, redis_db, heap, now, ticks>>

\* the arguments are a text, or a text and a k
IsRequest(args) == ~args[1].isInt /\ (Len(args) = 2 => args[2].isInt)

k_of(args) == IF Len(args) = 2 THEN args[2].n ELSE TOP_K

\* the three keys the operations derive for a text and a k, app.py:212, 280
\* and 392
keys_of(args) ==
    [embed |-> get_embedding_key(args[1].s),
     retrieval |-> get_retrieval_key(args[1].s, k_of(args)),
     response |-> get_response_key(args[1].s, k_of(args))]

domain_keys_call ==
    /\ derived.fn = "args"
    /\ IsRequest(derived.a) /\ IsRequest(derived.b)
    /\ derived' = [fn |-> "keys", a |-> derived.a, b |-> derived.b,
                   keys_a |-> keys_of(derived.a), keys_b |-> keys_of(derived.b)]
    /\ UNCHANGED <<config, handlers, direct, threads, memory_cache, redis_db, heap, now, ticks>>

KeyNext == hash_key_call \/ domain_keys_call

SpecKey == InitKey /\ [][KeyNext]_vars

\* C7: _hash_key gives two argument tuples the same digest exactly when the
\* tuples are equal.
C7_HashKeyInjective ==
    derived.fn = "_hash_key" => (derived.key_a = derived.key_b <=> derived.a = derived.b)

\* C20: for any two inputs, every embedding key begins with embed:, every
\* retrieval key with retrieval: and every answer key with response:, and
\* no key of one layer equals a key of another, so a lookup under the key
\* of one operation never finds the entry another operation wrote.
C20_DomainSeparation ==
    derived.fn = "keys" =>
        LET E == {derived.keys_a.embed, derived.keys_b.embed}
            R == {derived.keys_a.retrieval, derived.keys_b.retrieval}
            A == {derived.keys_a.response, derived.keys_b.response}
        IN  /\ \A key \in E : StartsWith(key, <<"e", "m", "b", "e", "d", ":">>)
            /\ \A key \in R : StartsWith(key, <<"r", "e", "t", "r", "i", "e", "v", "a", "l", ":">>)
            /\ \A key \in A : StartsWith(key, <<"r", "e", "s", "p", "o", "n", "s", "e", ":">>)
            /\ E \cap R = {} /\ E \cap A = {} /\ R \cap A = {}

C20_Witness ==
    /\ derived.fn = "keys"
    /\ derived.a = <<PyStr(<<"a", ":", "b">>), PyInt(12)>>
    /\ derived.b = <<PyStr(<<"a", ":", "b">>)>>
    /\ derived.keys_a.embed = derived.keys_b.embed
    /\ derived.keys_a.retrieval # derived.keys_b.retrieval

====
